---- MODULE Spec2Model ----
(***************************************************************************)
(* Model of scripts/classify_viirs.py: a one-shot batch script that loads  *)
(* a raster, flattens it to one row per pixel, clusters the rows with      *)
(* K-means, folds the labels back onto the grid, attaches the grid to the  *)
(* dataset and shows it.  main() is modelled statement group by statement  *)
(* group (pc); load_data and classify_data are operators that turn the     *)
(* outcome of the library call they wrap into what the function returns,   *)
(* raises and logs.                                                        *)
(*                                                                         *)
(* Libraries are outside the repository and are modelled by their          *)
(* documented behaviour:                                                   *)
(*  - xr.open_dataset(engine='rasterio') yields the variable band_data     *)
(*    with dimensions ('band', 'y', 'x'), in that order;                   *)
(*  - numpy reshape is row-major, .T reverses the axes;                    *)
(*  - KMeans.fit_predict raises for n_clusters <= 0 and for n_clusters     *)
(*    greater than the number of rows, and otherwise returns one label in  *)
(*    0..n_clusters-1 per row, equal rows receiving equal labels;          *)
(*  - Dataset.__setitem__ raises ValueError when the new variable's        *)
(*    dimension sizes conflict with the dataset's.                         *)
(***************************************************************************)
EXTENDS Integers, Sequences, FiniteSets, TLC

VARIABLES
    cli,       \* the command line: -v count, --n_clusters given or not
    fs,        \* what lies at the path given on the command line
    pc,        \* position of main()
    args,      \* parsed arguments (args.v, args.n_clusters)
    logLevel,  \* root logger threshold set by setup_logging
    log,       \* records emitted so far, in order
    calls,     \* stages invoked so far, in order
    thrown,    \* the exception a library call threw inside a stage
    raised,    \* the exception that left main()
    xds,       \* the dataset object returned by load_data
    n_bands, n_x, n_y,
    data,      \* the Pixel Matrix
    labels,    \* the array returned by classify_data
    results,   \* main's name 'results' after line 68 (the Cluster Grid)
    shown      \* plt.show() was called

vars == <<cli, fs, pc, args, logLevel, log, calls, thrown, raised, xds,
          n_bands, n_x, n_y, data, labels, results, shown>>

----------------------------------------------------------------------------
(* Bounds of the model *)

MaxBands == 2
MaxX == 2
MaxY == 3
MaxK == 3
MaxVerbosity == 4

(* Program constants *)

DefaultClusters == 5

----------------------------------------------------------------------------
(* Logging *)

Severity(level) ==
    CASE level = "DEBUG" -> 1
      [] level = "INFO" -> 2
      [] level = "WARNING" -> 3
      [] level = "ERROR" -> 4
      [] OTHER -> 0

\* A fallback for unknown verbosity counts, which the script does not have.
LevelMapClamped == [n \in 0..(MaxVerbosity + 1) |->
    IF n = 0 THEN "ERROR" ELSE IF n = 1 THEN "WARNING"
    ELSE IF n = 2 THEN "INFO" ELSE "DEBUG"]

\* A table with its first two entries exchanged.
LevelMapSwapped == (0 :> "WARNING") @@ (1 :> "ERROR") @@ (2 :> "INFO") @@ (3 :> "DEBUG")

\* The dict literal of setup_logging.
LevelMap == (0 :> "ERROR") @@ (1 :> "WARNING") @@ (2 :> "INFO") @@ (3 :> "DEBUG")

\* logging.<level>(msg) on the root logger: emitted iff at or above threshold.
Emit(lg, threshold, level, msg) ==
    IF Severity(level) >= Severity(threshold)
    THEN Append(lg, [level |-> level, msg |-> msg])
    ELSE lg

RECURSIVE EmitAll(_, _, _)
EmitAll(lg, threshold, recs) ==
    IF recs = <<>> THEN lg
    ELSE EmitAll(Emit(lg, threshold, Head(recs).level, Head(recs).msg),
                 threshold, Tail(recs))

ErrorRecords(lg) == {i \in 1..Len(lg) : lg[i].level = "ERROR"}

----------------------------------------------------------------------------
(* Exceptions *)

NoExc == [type |-> "None", stage |-> "None"]

\* What xr.open_dataset can throw; the script defines no exception class.
LoaderExceptions == {"RasterioIOError", "ValueError", "OSError"}

\* An exception of the given type, thrown inside the given stage.
Exc(type, stage) == [type |-> type, stage |-> stage]

----------------------------------------------------------------------------
(* Arrays.  An n-dimensional array is a nested sequence; a labelled array  *)
(* (xarray.DataArray) is [dims, values].                                   *)

\* The dimension order of band_data as the rasterio backend delivers it.
RasterDims == <<"band", "y", "x">>

Pos(dims, name) == CHOOSE i \in 1..Len(dims) : dims[i] = name

Shape3(v) == <<Len(v), Len(v[1]), Len(v[1][1])>>

\* DataArray.transpose(*order) on a 3-d labelled array: axes are moved by name.
Transpose3(arr, order) ==
    LET s == Shape3(arr.values)
        p == [q \in 1..3 |-> Pos(arr.dims, order[q])]
    IN [dims |-> order,
        values |->
          [i \in 1..s[p[1]] |-> [j \in 1..s[p[2]] |-> [k \in 1..s[p[3]] |->
             LET new == <<i, j, k>>
                 old == [d \in 1..3 |-> new[Pos(p, d)]]
             IN arr.values[old[1]][old[2]][old[3]]]]]]

\* ndarray.reshape(-1) of a 3-d array: row-major (C order) traversal.
Flatten3(v) ==
    LET s == Shape3(v)
    IN [m \in 1..(s[1] * s[2] * s[3]) |->
          v[((m - 1) \div (s[2] * s[3])) + 1]
           [(((m - 1) \div s[3]) % s[2]) + 1]
           [((m - 1) % s[3]) + 1]]

\* ndarray.reshape(rows, cols) of a flat array, row-major.
Reshape2(flat, rows, cols) ==
    [r \in 1..rows |-> [c \in 1..cols |-> flat[(r - 1) * cols + c]]]

\* ndarray.T of a 2-d array.
T(m) == [j \in 1..Len(m[1]) |-> [i \in 1..Len(m) |-> m[i][j]]]

----------------------------------------------------------------------------
(* The input file *)

FileStatus == {"ok", "missing", "unsupported", "corrupt"}
Patterns == {"distinct", "flat", "columns"}

\* The value of cell (band b, row y, column x) of the raster in the file.
CellValue(f, b, y, x) ==
    CASE f.pattern = "distinct" -> ((b - 1) * f.ny + (y - 1)) * f.nx + x
      [] f.pattern = "columns" -> 100 * (x - 1)
      [] OTHER -> 0

NoArray == [dims |-> <<>>, values |-> <<>>]
NoDataset == [sizes |-> [band |-> 0, y |-> 0, x |-> 0],
              data_vars |-> {}, band_data |-> NoArray, clusters |-> NoArray]

\* The dataset decoded from a readable file.
Decoded(f) ==
    [sizes |-> [band |-> f.nb, y |-> f.ny, x |-> f.nx],
     data_vars |-> {"band_data"},
     band_data |-> [dims |-> RasterDims,
                    values |-> [b \in 1..f.nb |-> [y \in 1..f.ny |->
                                  [x \in 1..f.nx |-> CellValue(f, b, y, x)]]]],
     clusters |-> NoArray]

\* The outcomes of xr.open_dataset(file_path, engine='rasterio').
OpenDataset(f) ==
    IF f.status = "ok"
    THEN {[ok |-> TRUE, value |-> Decoded(f), exc |-> NoExc]}
    ELSE {[ok |-> FALSE, value |-> NoDataset, exc |-> Exc(t, "load_data")] :
            t \in LoaderExceptions}

----------------------------------------------------------------------------
(* load_data *)

\* A variant that wraps the failure in an exception type of its own.
load_dataWrapping(lib) ==
    IF lib.ok
    THEN [ret |-> lib.value, exc |-> NoExc,
          logs |-> <<[level |-> "INFO", msg |-> "Data loaded successfully"]>>]
    ELSE [ret |-> NoDataset, exc |-> Exc("DataLoadError", "load_data"),
          logs |-> <<[level |-> "ERROR", msg |-> "Error loading data"]>>]

\* A variant that logs the failure and carries on with no dataset.
load_dataSwallowing(lib) ==
    IF lib.ok
    THEN [ret |-> lib.value, exc |-> NoExc,
          logs |-> <<[level |-> "INFO", msg |-> "Data loaded successfully"]>>]
    ELSE [ret |-> NoDataset, exc |-> NoExc,
          logs |-> <<[level |-> "ERROR", msg |-> "Error loading data"]>>]

\* load_data, given the outcome of the open_dataset call it wraps.
load_data(lib) ==
    IF lib.ok
    THEN [ret |-> lib.value, exc |-> NoExc,
          logs |-> <<[level |-> "INFO", msg |-> "Data loaded successfully"]>>]
    ELSE [ret |-> NoDataset, exc |-> lib.exc,
          logs |-> <<[level |-> "ERROR", msg |-> "Error loading data"]>>]

----------------------------------------------------------------------------
(* classify_data *)

Rows(m) == {m[r] : r \in 1..Len(m)}

\* 0-based rank of row r's content among the distinct rows, by first occurrence.
Rank(m, r) ==
    LET first(i) == CHOOSE k \in 1..i : m[k] = m[i] /\ \A h \in 1..(k - 1) : m[h] # m[i]
    IN Cardinality({first(i) : i \in 1..first(r)}) - 1

\* The outcomes of KMeans(n_clusters, random_state=9).fit_predict(flat_data).
\* Which cluster number a group of rows receives is left open (c).
KMeansFitPredict(flat_data, n_clusters) ==
    IF n_clusters <= 0
    THEN {[ok |-> FALSE, value |-> <<>>,
           exc |-> Exc("InvalidParameterError", "classify_data")]}
    ELSE IF n_clusters > Len(flat_data)
    THEN {[ok |-> FALSE, value |-> <<>>, exc |-> Exc("ValueError", "classify_data")]}
    ELSE {[ok |-> TRUE,
           value |-> [r \in 1..Len(flat_data) |-> (Rank(flat_data, r) + c) % n_clusters],
           exc |-> NoExc] : c \in 0..(n_clusters - 1)}

\* A variant that logs the failure and returns an empty result.
classify_dataSwallowing(lib) ==
    IF lib.ok
    THEN [ret |-> lib.value, exc |-> NoExc,
          logs |-> <<[level |-> "INFO", msg |-> "Data classified successfully."]>>]
    ELSE [ret |-> <<>>, exc |-> NoExc,
          logs |-> <<[level |-> "ERROR", msg |-> "Error during classification"]>>]

\* classify_data, given the outcome of the fit_predict call it wraps.
classify_data(lib) ==
    IF lib.ok
    THEN [ret |-> lib.value, exc |-> NoExc,
          logs |-> <<[level |-> "INFO", msg |-> "Data classified successfully."]>>]
    ELSE [ret |-> <<>>, exc |-> lib.exc,
          logs |-> <<[level |-> "ERROR", msg |-> "Error during classification"]>>]

----------------------------------------------------------------------------
(* The reshapes of main *)

\* A variant that flattens without reordering the axes first.
ForwardReshapeNoTranspose(band_data, nb) ==
    LET flat == Flatten3(band_data.values)
    IN Reshape2(flat, Len(flat) \div nb, nb)

\* band_data.transpose('y', 'x', 'band').values.reshape(-1, n_bands)
ForwardReshape(band_data, nb) ==
    LET flat == Flatten3(Transpose3(band_data, <<"y", "x", "band">>).values)
    IN Reshape2(flat, Len(flat) \div nb, nb)

\* A variant without the final transpose.
BackwardReshapeNoT(res, nx, ny) == Reshape2(res, nx, ny)

\* A variant with the two extents exchanged in the reshape.
BackwardReshapeSwapped(res, nx, ny) == T(Reshape2(res, ny, nx))

\* results.reshape(n_x, n_y).T
BackwardReshape(res, nx, ny) == T(Reshape2(res, nx, ny))

Shape2(v) == <<Len(v), IF Len(v) = 0 THEN 0 ELSE Len(v[1])>>

\* Whether a labelled 2-d array's sizes disagree with the dataset's.
Conflicts(ds, arr) ==
    \E i \in 1..Len(arr.dims) : Shape2(arr.values)[i] # ds.sizes[arr.dims[i]]

\* A variant that stores the array under the name of the loaded variable.
SetClustersOverwriting(ds, arr) ==
    [ds EXCEPT !.band_data = arr]

\* ds['clusters'] = arr
SetClusters(ds, arr) ==
    [ds EXCEPT !.clusters = arr, !.data_vars = @ \cup {"clusters"}]

----------------------------------------------------------------------------
(* setup_logging *)

setup_logging(log_level) ==
    IF log_level \in DOMAIN LevelMap
    THEN [ok |-> TRUE, level |-> LevelMap[log_level], exc |-> NoExc]
    ELSE [ok |-> FALSE, level |-> "WARNING", exc |-> Exc("KeyError", "setup_logging")]

----------------------------------------------------------------------------
(* main *)

CommandLines ==
    {c \in [v : 0..MaxVerbosity, has_n_clusters : BOOLEAN, n_clusters : (-1)..MaxK] :
        ~c.has_n_clusters => c.n_clusters = 0}

Files ==
    {f \in [status : FileStatus, nb : 1..MaxBands, nx : 1..MaxX, ny : 1..MaxY,
            pattern : Patterns] :
        f.status # "ok" => (f.nb = 1 /\ f.nx = 1 /\ f.ny = 1 /\ f.pattern = "flat")}

Init ==
    /\ cli \in CommandLines
    /\ fs \in Files
    /\ pc = "parse"
    /\ args = [v |-> 0, n_clusters |-> 0]
    /\ logLevel = "WARNING"
    /\ log = <<>>
    /\ calls = <<>>
    /\ thrown = NoExc
    /\ raised = NoExc
    /\ xds = NoDataset
    /\ n_bands = 0
    /\ n_x = 0
    /\ n_y = 0
    /\ data = <<>>
    /\ labels = <<>>
    /\ results = <<>>
    /\ shown = FALSE

\* parser.parse_args()
ParseArgs ==
    /\ pc = "parse"
    /\ args' = [v |-> cli.v,
                n_clusters |-> IF cli.has_n_clusters THEN cli.n_clusters
                               ELSE DefaultClusters]
    /\ pc' = "setup"
    /\ UNCHANGED <<cli, fs, logLevel, log, calls, thrown, raised, xds,
                   n_bands, n_x, n_y, data, labels, results, shown>>

\* setup_logging(args.v); logging.info("Script started.")
SetupLogging ==
    /\ pc = "setup"
    /\ LET out == setup_logging(args.v)
       IN /\ calls' = Append(calls, "setup_logging")
          /\ IF out.ok
             THEN /\ logLevel' = out.level
                  /\ log' = Emit(log, out.level, "INFO", "Script started.")
                  /\ pc' = "load"
                  /\ UNCHANGED <<thrown, raised>>
             ELSE /\ thrown' = out.exc
                  /\ raised' = out.exc
                  /\ pc' = "aborted"
                  /\ UNCHANGED <<logLevel, log>>
    /\ UNCHANGED <<cli, fs, args, xds, n_bands, n_x, n_y, data, labels,
                   results, shown>>

\* xds = load_data(args.viirs_file)
LoadData ==
    /\ pc = "load"
    /\ \E lib \in OpenDataset(fs) :
         LET out == load_data(lib)
         IN /\ calls' = Append(calls, "load_data")
            /\ thrown' = lib.exc
            /\ log' = EmitAll(log, logLevel, out.logs)
            /\ raised' = out.exc
            /\ xds' = out.ret
            /\ pc' = IF out.exc = NoExc THEN "reshape" ELSE "aborted"
    /\ UNCHANGED <<cli, fs, args, logLevel, n_bands, n_x, n_y, data, labels,
                   results, shown>>

\* lines 56-60: the Band-Stack Reshaper
BandStackReshape ==
    /\ pc = "reshape"
    /\ calls' = Append(calls, "band_stack_reshape")
    /\ log' = Emit(log, logLevel, "INFO", "Extract and reshape data")
    /\ n_bands' = Shape3(xds.band_data.values)[1]
    /\ n_x' = Shape3(xds.band_data.values)[2]
    /\ n_y' = Shape3(xds.band_data.values)[3]
    /\ data' = ForwardReshape(xds.band_data, n_bands')
    /\ pc' = "classify"
    /\ UNCHANGED <<cli, fs, args, logLevel, thrown, raised, xds, labels,
                   results, shown>>

\* lines 63-64: results = classify_data(data, args.n_clusters)
ClassifyData ==
    /\ pc = "classify"
    /\ \E lib \in KMeansFitPredict(data, args.n_clusters) :
         LET out == classify_data(lib)
         IN /\ calls' = Append(calls, "classify_data")
            /\ thrown' = lib.exc
            /\ log' = EmitAll(Emit(log, logLevel, "INFO", "Classifying data using KMeans."),
                              logLevel, out.logs)
            /\ raised' = out.exc
            /\ labels' = out.ret
            /\ pc' = IF out.exc = NoExc THEN "unflatten" ELSE "aborted"
    /\ UNCHANGED <<cli, fs, args, logLevel, xds, n_bands, n_x, n_y, data,
                   results, shown>>

\* lines 67-68: the Result Reshaper
ResultReshape ==
    /\ pc = "unflatten"
    /\ calls' = Append(calls, "result_reshape")
    /\ log' = Emit(log, logLevel, "INFO", "Reshaping results")
    /\ results' = BackwardReshape(labels, n_x, n_y)
    /\ pc' = "attach"
    /\ UNCHANGED <<cli, fs, args, logLevel, thrown, raised, xds, n_bands,
                   n_x, n_y, data, labels, shown>>

\* line 71: xds['clusters'] = xr.DataArray(results, dims=('x', 'y'))
AttachClusters ==
    /\ pc = "attach"
    /\ calls' = Append(calls, "attach")
    /\ LET arr == [dims |-> <<"x", "y">>, values |-> results]
       IN IF Conflicts(xds, arr)
          THEN /\ thrown' = Exc("ValueError", "attach")
               /\ raised' = Exc("ValueError", "attach")
               /\ pc' = "aborted"
               /\ UNCHANGED xds
          ELSE /\ xds' = SetClusters(xds, arr)
               /\ pc' = "plot"
               /\ UNCHANGED <<thrown, raised>>
    /\ UNCHANGED <<cli, fs, args, logLevel, log, n_bands, n_x, n_y, data,
                   labels, results, shown>>

\* lines 74-77: the Renderer
Render ==
    /\ pc = "plot"
    /\ calls' = Append(calls, "render")
    /\ log' = Emit(log, logLevel, "INFO", "Plotting results.")
    /\ shown' = TRUE
    /\ pc' = "finish"
    /\ UNCHANGED <<cli, fs, args, logLevel, thrown, raised, xds, n_bands,
                   n_x, n_y, data, labels, results>>

\* line 79
Finish ==
    /\ pc = "finish"
    /\ log' = Emit(log, logLevel, "INFO", "Script finished.")
    /\ pc' = "done"
    /\ UNCHANGED <<cli, fs, args, logLevel, calls, thrown, raised, xds,
                   n_bands, n_x, n_y, data, labels, results, shown>>

Next ==
    \/ ParseArgs
    \/ SetupLogging
    \/ LoadData
    \/ BandStackReshape
    \/ ClassifyData
    \/ ResultReshape
    \/ AttachClusters
    \/ Render
    \/ Finish

Spec == Init /\ [][Next]_vars

----------------------------------------------------------------------------
(* Vocabulary of the properties *)

Called(stage) == \E i \in 1..Len(calls) : calls[i] = stage

TimesCalled(stage) == Cardinality({i \in 1..Len(calls) : calls[i] = stage})

\* The raster's extents, by axis name.
B == xds.sizes.band
X == xds.sizes.x
Y == xds.sizes.y

\* The raster's value at band b of grid coordinate (x, y), looked up by axis name.
Cell(b, x, y) ==
    LET d == xds.band_data.dims
        at == [n \in {"band", "x", "y"} |->
                 IF n = "band" THEN b ELSE IF n = "x" THEN x ELSE y]
    IN xds.band_data.values[at[d[1]]][at[d[2]]][at[d[3]]]

\* The band vector of the pixel at grid coordinate (x, y).
PixelAt(x, y) == [b \in 1..B |-> Cell(b, x, y)]

\* Row index of grid coordinate (x, y) when the grid is traversed y-major.
RowOf(x, y) == (y - 1) * X + x

Logged(msg) == \E i \in 1..Len(log) : log[i].msg = msg

----------------------------------------------------------------------------
(* C2: once the Band-Stack Reshaper has run, the Pixel Matrix has X*Y rows *)
(* of B entries, grid coordinates and row indices correspond one to one    *)
(* (y-major), and the row of (x, y) holds exactly the raster's B band      *)
(* values at (x, y), in band order.                                        *)
C2_ReshaperBijection ==
    Called("band_stack_reshape") =>
        /\ Len(data) = X * Y
        /\ \A r \in 1..Len(data) : Len(data[r]) = B
        /\ \A r \in 1..(X * Y) :
             Cardinality({c \in (1..X) \X (1..Y) : RowOf(c[1], c[2]) = r}) = 1
        /\ \A x \in 1..X, y \in 1..Y :
             /\ RowOf(x, y) \in 1..Len(data)
             /\ data[RowOf(x, y)] = PixelAt(x, y)

C2_Witness ==
    /\ Called("band_stack_reshape")
    /\ fs.pattern = "distinct"
    /\ B >= 2 /\ X >= 2 /\ Y >= 2 /\ X # Y

(* C1: round trip.  After the Result Reshaper the Pixel Matrix has shape   *)
(* (X*Y, B), the grid has shape (X, Y) under the axis names ('x', 'y'),    *)
(* and the label of the row that holds pixel (x, y) sits at (x, y).        *)
C1_RoundTrip ==
    Called("result_reshape") =>
        /\ Len(data) = X * Y
        /\ \A r \in 1..Len(data) : Len(data[r]) = B
        /\ Len(results) = X
        /\ \A x \in 1..X : Len(results[x]) = Y
        /\ \A x \in 1..X, y \in 1..Y :
             \A r \in 1..Len(data) :
                (r = RowOf(x, y) \/ data[r] = PixelAt(x, y)) => results[x][y] = labels[r]

C1_Witness ==
    /\ pc = "done"
    /\ X >= 2 /\ Y >= 2 /\ X # Y
    /\ \E r1, r2 \in 1..Len(labels) : labels[r1] # labels[r2]

(* C9: the grid attached under ('x', 'y') has the raster's x length on its *)
(* first axis and the raster's y length on its second, so the attachment   *)
(* never fails on conflicting sizes.                                       *)
C9_AxisLengths ==
    /\ Called("result_reshape") => Shape2(results) = <<X, Y>>
    /\ Called("attach") =>
         /\ raised = NoExc
         /\ "clusters" \in xds.data_vars
         /\ xds.clusters.dims = <<"x", "y">>
         /\ Shape2(xds.clusters.values) = <<xds.sizes.x, xds.sizes.y>>

C9_Witness ==
    /\ Called("attach")
    /\ "clusters" \in xds.data_vars
    /\ X # Y

----------------------------------------------------------------------------
(* C3 as stated: a failed load raises DataLoadError and nothing else.      *)
C3_RaisesDataLoadError ==
    (fs.status # "ok" /\ Called("load_data")) =>
        (pc = "aborted" /\ raised.type = "DataLoadError")

(* C3, amended: a failed load (missing path, unsupported format, decoding  *)
(* failure) logs one ERROR record and re-raises the exception that         *)
(* open_dataset threw, unchanged; no dataset is returned.                  *)
C3_ReraisesLoaderException ==
    (fs.status # "ok" /\ Called("load_data")) =>
        /\ pc = "aborted"
        /\ raised = thrown
        /\ raised.type \in LoaderExceptions
        /\ raised.stage = "load_data"
        /\ xds = NoDataset
        /\ Cardinality(ErrorRecords(log)) = 1
        /\ log[Len(log)] = [level |-> "ERROR", msg |-> "Error loading data"]

C3_Witness ==
    /\ fs.status = "missing"
    /\ pc = "aborted"
    /\ raised.stage = "load_data"

(* C4 as stated: K <= 0 or K above the number of distinct rows fails with  *)
(* ClassificationError and returns no labels.                              *)
C4_RaisesClassificationError ==
    (Called("classify_data")
        /\ (args.n_clusters <= 0 \/ args.n_clusters > Cardinality(Rows(data)))) =>
        (pc = "aborted" /\ raised.type = "ClassificationError" /\ labels = <<>>)

(* C4, amended: classify_data fails exactly when K <= 0 or K exceeds the   *)
(* number of rows; the failure is the library's exception re-raised        *)
(* unchanged and no labels are returned; otherwise one label in 0..K-1 is  *)
(* returned per row.                                                       *)
C4_AllOrNothing ==
    Called("classify_data") =>
        IF args.n_clusters <= 0 \/ args.n_clusters > Len(data)
        THEN /\ pc = "aborted"
             /\ raised = thrown
             /\ raised.stage = "classify_data"
             /\ raised.type \notin {"None", "ClassificationError"}
             /\ labels = <<>>
             /\ results = <<>>
        ELSE /\ thrown = NoExc
             /\ raised = NoExc
             /\ Len(labels) = Len(data)
             /\ \A r \in 1..Len(labels) : labels[r] \in 0..(args.n_clusters - 1)

C4_Witness ==
    /\ pc = "aborted"
    /\ raised.stage = "classify_data"
    /\ args.n_clusters > Len(data)

(* C5: log-then-abort.  When the load or the cluster stage fails, one      *)
(* ERROR record is emitted, the exception leaves main unchanged, the       *)
(* stage was invoked once and is the last thing invoked, nothing runs      *)
(* afterwards and 'Script finished.' is never logged.                      *)
C5_LogThenAbort ==
    thrown.stage \in {"load_data", "classify_data"} =>
        /\ pc = "aborted"
        /\ raised = thrown
        /\ Cardinality(ErrorRecords(log)) = 1
        /\ log[Len(log)].level = "ERROR"
        /\ TimesCalled(thrown.stage) = 1
        /\ calls[Len(calls)] = thrown.stage
        /\ ~Called("result_reshape")
        /\ ~Called("render")
        /\ ~shown
        /\ ~Logged("Script finished.")
        /\ ~ENABLED Next

C5_Witness ==
    /\ pc = "aborted"
    /\ thrown.stage = "classify_data"
    /\ Called("load_data")
    /\ logLevel = "DEBUG"

----------------------------------------------------------------------------
(* C7: -v counts 0, 1, 2, 3 set the threshold to ERROR, WARNING, INFO,     *)
(* DEBUG, and without --n_clusters the cluster count is 5.                 *)
C7_VerbosityAndDefault ==
    /\ (Called("setup_logging") /\ cli.v <= 3) =>
         /\ raised.stage # "setup_logging"
         /\ cli.v = 0 => logLevel = "ERROR"
         /\ cli.v = 1 => logLevel = "WARNING"
         /\ cli.v = 2 => logLevel = "INFO"
         /\ cli.v = 3 => logLevel = "DEBUG"
    /\ (pc # "parse" /\ ~cli.has_n_clusters) => args.n_clusters = 5
    /\ (pc # "parse" /\ cli.has_n_clusters) => args.n_clusters = cli.n_clusters

C7_Witness ==
    /\ pc = "load"
    /\ cli.v = 0
    /\ ~cli.has_n_clusters

(* C10: a -v count of 4 or more makes setup_logging fail with KeyError;    *)
(* no stage is invoked, nothing is logged at ERROR level.                  *)
C10_VerbosityOutOfRange ==
    cli.v >= 4 =>
        \/ pc \in {"parse", "setup"}
        \/ /\ pc = "aborted"
           /\ raised = Exc("KeyError", "setup_logging")
           /\ raised.type \notin {"DataLoadError", "ClassificationError"}
           /\ calls = <<"setup_logging">>
           /\ ErrorRecords(log) = {}
           /\ xds = NoDataset

C10_Witness ==
    /\ cli.v >= 4
    /\ pc = "aborted"

----------------------------------------------------------------------------
(* C8 as stated: once created, the dataset, the Pixel Matrix and the label *)
(* sequence never change.                                                  *)
C8_NothingMutated ==
    [][/\ Called("load_data") => xds' = xds
       /\ Called("band_stack_reshape") => data' = data
       /\ Called("classify_data") => labels' = labels]_vars

(* C8, amended: band_data, the axes, the Pixel Matrix and the label        *)
(* sequence never change once created; the dataset itself changes once,    *)
(* when main adds the variable 'clusters' to it.                           *)
C8_OnlyClustersAdded ==
    [][/\ Called("load_data") =>
            /\ xds'.band_data = xds.band_data
            /\ xds'.sizes = xds.sizes
            /\ xds' # xds =>
                 /\ pc = "attach"
                 /\ xds' = [xds EXCEPT
                              !.clusters = [dims |-> <<"x", "y">>, values |-> results],
                              !.data_vars = @ \cup {"clusters"}]
       /\ Called("band_stack_reshape") => data' = data
       /\ Called("classify_data") => labels' = labels]_vars

C8_Witness ==
    /\ pc = "done"
    /\ xds.data_vars = {"band_data", "clusters"}

====
